---- MODULE Spec2Model ----
(***************************************************************************)
(* EDUFACE: recognition decision, attendance ledger, student registry,     *)
(* metrics, history and report of src/app/main.py over the tables of       *)
(* src/app/db.py.                                                          *)
(*                                                                         *)
(* Units: distances are hundredths (1.20 -> 120, 0.30 -> 30, 0.04 -> 4);   *)
(* a time of day is a number of seconds since midnight; a date is a day    *)
(* number counted from Epoch.  An optional value is a sequence of length   *)
(* at most one: None is << >>, Some(x) is << x >>.                         *)
(***************************************************************************)
EXTENDS Integers, Sequences, FiniteSets, TLC

VARIABLES
    clock,              \* the wall clock: [day, tod]
    students,           \* table students: set of rows
    attendances,        \* table attendances: set of rows
    reqs,               \* the attendance_mark calls in flight, per request slot
    FACE_MAX_DISTANCE,  \* environment setting, read once at import
    out,                \* the response of the read-side call being answered
    fs                  \* the files under db/ and students/: a set of paths

vars == <<clock, students, attendances, reqs, FACE_MAX_DISTANCE, out, fs>>

None == << >>
Some(x) == << x >>

\* no read-side call is being answered
NoOut == [op |-> "none"]

(***************************************************************************)
(* Bounds of the model.                                                    *)
(***************************************************************************)
MaxStudentId == 2    \* no student row gets a larger primary key
MaxAttendanceId == 2 \* no attendance row gets a larger primary key
MaxCands == 2        \* longest candidate list the matching engine returns

Req == {"r1", "r2"}
Codes == {"ana", "bob"}
Names == {"Ana"}

At(day, tod) == [day |-> day, tod |-> tod]

\* the instants at which the clock is read: 07:30:00 and 07:30:01 of the first
\* day, midnight of the next
Instants == {At(0, 27000), At(0, 27001), At(1, 0)}
Days == {t.day : t \in Instants}

(***************************************************************************)
(* Calendar.                                                               *)
(***************************************************************************)
Epoch == [y |-> 2024, m |-> 12, d |-> 30]

IsLeap(y) == (y % 4 = 0 /\ y % 100 # 0) \/ y % 400 = 0

DaysInMonth(y, m) ==
    IF m = 2 THEN (IF IsLeap(y) THEN 29 ELSE 28)
    ELSE IF m \in {4, 6, 9, 11} THEN 30 ELSE 31

NextDate(dt) ==
    IF dt.d < DaysInMonth(dt.y, dt.m) THEN [dt EXCEPT !.d = dt.d + 1]
    ELSE IF dt.m < 12 THEN [y |-> dt.y, m |-> dt.m + 1, d |-> 1]
    ELSE [y |-> dt.y + 1, m |-> 1, d |-> 1]

RECURSIVE AddDays(_, _)
AddDays(dt, n) == IF n = 0 THEN dt ELSE AddDays(NextDate(dt), n - 1)

\* the calendar date of a day number
DateOf(day) == AddDays(Epoch, day)

\* str(att.date): 'YYYY-MM-DD' as its three numbers
str_date(day) == LET dt == DateOf(day) IN <<dt.y, dt.m, dt.d>>

\* att.time.isoformat(): 'YYYY-MM-DDTHH:MM:SS' as its six numbers
isoformat(t) ==
    LET dt == DateOf(t.day)
    IN <<dt.y, dt.m, dt.d, t.tod \div 3600, (t.tod % 3600) \div 60, t.tod % 60>>

(***************************************************************************)
(* Recognition settings (main.py 27-40).                                   *)
(***************************************************************************)
ArcFace == <<"A", "r", "c", "F", "a", "c", "e">>
Facenet512 == <<"F", "a", "c", "e", "n", "e", "t", "5", "1", "2">>
VGGFace == <<"V", "G", "G", "-", "F", "a", "c", "e">>
ARCFACE == <<"A", "R", "C", "F", "A", "C", "E">>

FACE_MODEL == ArcFace
FACE_MIN_MARGIN == 4

\* str.lower(), on the letters that occur in model names
LowerChar(c) ==
    CASE c = "A" -> "a" [] c = "C" -> "c" [] c = "E" -> "e" [] c = "F" -> "f"
      [] c = "G" -> "g" [] c = "N" -> "n" [] c = "R" -> "r" [] c = "T" -> "t"
      [] c = "V" -> "v" [] OTHER -> c

lower(s) == [i \in 1..Len(s) |-> LowerChar(s[i])]

\* sub in s, for two strings
Contains(s, sub) ==
    \E i \in 1..(Len(s) - Len(sub) + 1) : SubSeq(s, i, i + Len(sub) - 1) = sub

defaults_for_model(model_name) ==
    LET name == lower(model_name)
    IN  IF Contains(name, <<"a", "r", "c">>)
        THEN [metric |-> "euclidean_l2", threshold |-> 120]
        ELSE IF Contains(name, <<"f", "a", "c", "e", "n", "e", "t">>)
        THEN [metric |-> "cosine", threshold |-> 30]
        ELSE [metric |-> "cosine", threshold |-> 30]

\* the configured override taken before the request's
eff_max_distance_env_first(max_distance, env, threshold_default) ==
    IF env # None THEN env[1]
    ELSE IF max_distance # None THEN max_distance[1]
    ELSE threshold_default

\* main.py 845: the request's override, else the environment's, else the default
eff_max_distance(max_distance, env, threshold_default) ==
    IF max_distance # None THEN max_distance[1]
    ELSE IF env # None THEN env[1]
    ELSE threshold_default

(***************************************************************************)
(* The recognition decision (main.py 852-867).                             *)
(***************************************************************************)
\* a gallery file of a person: db/<code>/profile.jpg
IdentityPath(code) == <<"db", code, "profile.jpg">>

dirname(path) == SubSeq(path, 1, Len(path) - 1)
basename(path) == path[Len(path)]

Orderings(n) ==
    {p \in [1..n -> 1..n] : \A i, j \in 1..n : i # j => p[i] # p[j]}

IsAscending(df) ==
    \A i \in 1..(Len(df) - 1) : df[i].distance <= df[i + 1].distance

\* the frame taken in the order the matching engine returned it
sort_values_skipped(df) == {df}

\* df.sort_values('distance'): the default sort is not stable, so rows of equal
\* distance may come out in any order
sort_values(df) ==
    {s \in {[i \in 1..Len(df) |-> df[p[i]]] : p \in Orderings(Len(df))} :
        IsAscending(s)}

\* the margin rule applied before the threshold rule
decide_margin_first(df, eff, min_margin) ==
    LET best_dist == df[1].distance
    IN  IF Len(df) > 1 /\ (df[2].distance - best_dist) < min_margin
        THEN [status |-> "unknown", reason |-> "low_margin",
              distance |-> best_dist, margin |-> df[2].distance - best_dist]
        ELSE IF best_dist > eff
        THEN [status |-> "unknown", reason |-> "above_threshold",
              distance |-> best_dist]
        ELSE [status |-> "accepted", distance |-> best_dist,
              code |-> basename(dirname(df[1].identity))]

\* the threshold rule alone
decide_threshold_only(df, eff, min_margin) ==
    IF df[1].distance > eff
    THEN [status |-> "unknown", reason |-> "above_threshold",
          distance |-> df[1].distance]
    ELSE [status |-> "accepted", distance |-> df[1].distance,
          code |-> basename(dirname(df[1].identity))]

\* the threshold itself rejected
decide_exclusive_threshold(df, eff, min_margin) ==
    IF df[1].distance >= eff
    THEN [status |-> "unknown", reason |-> "above_threshold",
          distance |-> df[1].distance]
    ELSE IF Len(df) > 1 /\ (df[2].distance - df[1].distance) < min_margin
    THEN [status |-> "unknown", reason |-> "low_margin",
          distance |-> df[1].distance,
          margin |-> df[2].distance - df[1].distance]
    ELSE [status |-> "accepted", distance |-> df[1].distance,
          code |-> basename(dirname(df[1].identity))]

\* the decision on a sorted, non-empty frame
decide_sorted(df, eff, min_margin) ==
    LET best == df[1]
        best_dist == best.distance
        second_dist == IF Len(df) > 1 THEN Some(df[2].distance) ELSE None
    IN  IF best_dist > eff
        THEN [status |-> "unknown", reason |-> "above_threshold",
              distance |-> best_dist]
        ELSE IF second_dist # None /\ (second_dist[1] - best_dist) < min_margin
        THEN [status |-> "unknown", reason |-> "low_margin",
              distance |-> best_dist, margin |-> second_dist[1] - best_dist]
        ELSE [status |-> "accepted", distance |-> best_dist,
              code |-> basename(dirname(best.identity))]

\* an empty frame reported like a frame whose best match is too far
decisions_empty_as_far(cands, eff, min_margin) ==
    IF cands = << >>
    THEN {[status |-> "unknown", reason |-> "above_threshold", distance |-> eff + 1]}
    ELSE {decide_sorted(s, eff, min_margin) : s \in sort_values(cands)}

\* the decisions attendance_mark can reach for what DeepFace.find returned
decisions(cands, eff, min_margin) ==
    IF cands = << >>
    THEN {[status |-> "unknown"]}
    ELSE {decide_sorted(s, eff, min_margin) : s \in sort_values(cands)}

(***************************************************************************)
(* The tables (db.py 13-38).                                               *)
(***************************************************************************)
MaxOf(S) == CHOOSE x \in S : \A y \in S : y <= x

\* Column(Integer, primary_key=True) on SQLite: the rowid, one more than the
\* largest in the table, so the key of a deleted last row is handed out again
NextRowId(rows) == IF rows = {} THEN 1 ELSE MaxOf({row.id : row \in rows}) + 1

\* the table students without the unique constraint on code
uq_students_code_dropped(rows, code) == FALSE

\* Student.code: unique=True
uq_students_code(rows, code) == \E s \in rows : s.code = code

\* the table attendances without its unique constraint
uq_attendance_dropped(rows, student_id, date) == FALSE

\* UniqueConstraint('student_id', 'date', name='uq_attendance_student_date')
uq_attendance_student_date(rows, student_id, date) ==
    \E a \in rows : a.student_id = student_id /\ a.date = date

Student(id, code, name, grade, section, gender) ==
    [id |-> id, code |-> code, name |-> name, grade |-> grade,
     section |-> section, gender |-> gender]

Attendance(id, student_id, date, time, status) ==
    [id |-> id, student_id |-> student_id, date |-> date, time |-> time,
     status |-> status]

\* the columns of a loaded Student that attendance_mark reads
loaded(student) == [id |-> student.id, code |-> student.code]

\* filter_by(...).one_or_none()
one_or_none(rows) == IF rows = {} THEN None ELSE Some(CHOOSE row \in rows : TRUE)

(***************************************************************************)
(* attendance_mark (main.py 833-890), one step per database statement.     *)
(***************************************************************************)
FACE_DETECTOR == "opencv"

IdleReq ==
    [pc |-> "idle", cands |-> << >>, max_distance |-> None, min_margin |-> 0,
     model_name |-> << >>, eff_max_distance |-> 0,
     decision |-> [status |-> "none"], student |-> None, today |-> None,
     inserted |-> FALSE, resp |-> [status |-> "none"]]

\* now.replace(hour=7, minute=30, second=0, microsecond=0), as a time of day
cutoff == 7 * 3600 + 30 * 60

\* the cutoff minute counted as late
status_of_inclusive(now) == IF now.tod >= cutoff THEN "Tarde" ELSE "Puntual"

\* main.py 881
status_of(now) == IF now.tod > cutoff THEN "Tarde" ELSE "Puntual"

\* main.py 887
marked(rq, student, att) ==
    [status |-> "marked", student |-> student.code,
     attendance |-> [date |-> str_date(att.date), time |-> isoformat(att.time),
                     status |-> att.status],
     distance |-> rq.decision.distance, model |-> rq.model_name,
     detector |-> FACE_DETECTOR]

\* db.commit() raises sqlalchemy's IntegrityError when a unique constraint
\* rejects the row; nothing catches it and the call ends as HTTP 500
IntegrityError(constraint) ==
    [status |-> "error", code |-> 500, exception |-> "IntegrityError",
     constraint |-> constraint]

\* what is left of a call once its response is built: the response, and whether
\* the call inserted the day's record
Done(rq, resp, inserted) ==
    [rq EXCEPT !.pc = "done", !.resp = resp, !.inserted = inserted,
               !.student = None, !.today = None]

\* the call enrolling the first candidate before the rules are applied
attendance_mark_find_enrolling(r, CandLists, MaxDistances, MinMargins, ModelNames) ==
    /\ reqs[r].pc = "idle"
    /\ \E cands \in CandLists, max_distance \in MaxDistances,
          min_margin \in MinMargins, model_name \in ModelNames :
        LET eff == eff_max_distance(max_distance, FACE_MAX_DISTANCE,
                                    defaults_for_model(model_name).threshold)
            code == basename(dirname(cands[1].identity))
            enrol == /\ cands # << >>
                     /\ ~uq_students_code(students, code)
                     /\ NextRowId(students) <= MaxStudentId
        IN  /\ students' =
                 IF enrol
                 THEN students \cup
                        {Student(NextRowId(students), code, code, None, None, None)}
                 ELSE students
            /\ \E dec \in decisions(cands, eff, min_margin) :
                LET rq == [reqs[r] EXCEPT !.cands = cands,
                                          !.max_distance = max_distance,
                                          !.min_margin = min_margin,
                                          !.model_name = model_name,
                                          !.eff_max_distance = eff,
                                          !.decision = dec]
                    student == IF dec.status = "accepted"
                               THEN one_or_none({loaded(s) : s \in
                                        {s \in students' : s.code = dec.code}})
                               ELSE None
                IN  reqs' = [reqs EXCEPT ![r] =
                        IF dec.status # "accepted" THEN Done(rq, dec, FALSE)
                        ELSE [rq EXCEPT !.student = student,
                                        !.pc = IF student = None
                                               THEN "add_student" ELSE "today"]]
    /\ UNCHANGED <<clock, attendances, FACE_MAX_DISTANCE, out, fs>>

\* main.py 841-870: the matching engine answers, the decision is taken and, when
\* it accepts, the student is looked up by code
attendance_mark_find(r, CandLists, MaxDistances, MinMargins, ModelNames) ==
    /\ reqs[r].pc = "idle"
    /\ \E cands \in CandLists, max_distance \in MaxDistances,
          min_margin \in MinMargins, model_name \in ModelNames :
        LET eff == eff_max_distance(max_distance, FACE_MAX_DISTANCE,
                                    defaults_for_model(model_name).threshold)
        IN  \E dec \in decisions(cands, eff, min_margin) :
            LET rq == [reqs[r] EXCEPT !.cands = cands,
                                      !.max_distance = max_distance,
                                      !.min_margin = min_margin,
                                      !.model_name = model_name,
                                      !.eff_max_distance = eff,
                                      !.decision = dec]
                student == IF dec.status = "accepted"
                           THEN one_or_none({loaded(s) : s \in
                                    {s \in students : s.code = dec.code}})
                           ELSE None
            IN  reqs' = [reqs EXCEPT ![r] =
                    IF dec.status # "accepted" THEN Done(rq, dec, FALSE)
                    ELSE [rq EXCEPT !.student = student,
                                    !.pc = IF student = None
                                           THEN "add_student" ELSE "today"]]
    /\ UNCHANGED <<clock, students, attendances, FACE_MAX_DISTANCE, out, fs>>

\* main.py 871-874
attendance_mark_add_student(r) ==
    /\ reqs[r].pc = "add_student"
    /\ LET code == reqs[r].decision.code
           student == Student(NextRowId(students), code, code, None, None, None)
       IN  IF uq_students_code(students, code)
           THEN /\ reqs' = [reqs EXCEPT ![r] =
                       Done(@, IntegrityError("students.code"), FALSE)]
                /\ UNCHANGED students
           ELSE /\ student.id <= MaxStudentId
                /\ students' = students \cup {student}
                /\ reqs' = [reqs EXCEPT ![r] =
                       [@ EXCEPT !.student = Some(loaded(student)), !.pc = "today"]]
    /\ UNCHANGED <<clock, attendances, FACE_MAX_DISTANCE, out, fs>>

\* a repeated recognition that stamps the day's record again
attendance_mark_read_today_restamp(r) ==
    /\ reqs[r].pc = "today"
    /\ LET student == reqs[r].student[1]
           today == clock.day
           att == one_or_none({a \in attendances :
                                  a.student_id = student.id /\ a.date = today})
           again == IF att = None THEN None
                    ELSE Some([att[1] EXCEPT !.time = clock,
                                             !.status = status_of(clock)])
       IN  /\ reqs' = [reqs EXCEPT ![r] =
                  IF att = None
                  THEN [@ EXCEPT !.today = Some(today), !.pc = "insert"]
                  ELSE Done(@, marked(reqs[r], student, again[1]), FALSE)]
           /\ attendances' = IF att = None THEN attendances
                             ELSE (attendances \ {att[1]}) \cup {again[1]}
    /\ UNCHANGED <<clock, students, FACE_MAX_DISTANCE, out, fs>>

\* main.py 876-878, and 886-887 when the day's record exists
attendance_mark_read_today(r) ==
    /\ reqs[r].pc = "today"
    /\ LET student == reqs[r].student[1]
           today == clock.day
           att == one_or_none({a \in attendances :
                                  a.student_id = student.id /\ a.date = today})
       IN  reqs' = [reqs EXCEPT ![r] =
               IF att = None
               THEN [@ EXCEPT !.today = Some(today), !.pc = "insert"]
               ELSE Done(@, marked(reqs[r], student, att[1]), FALSE)]
    /\ UNCHANGED <<clock, students, attendances, FACE_MAX_DISTANCE, out, fs>>

\* main.py 879-887
attendance_mark_insert(r) ==
    /\ reqs[r].pc = "insert"
    /\ LET student == reqs[r].student[1]
           today == reqs[r].today[1]
           now == clock
           att == Attendance(NextRowId(attendances), student.id, today, now,
                             status_of(now))
       IN  IF uq_attendance_student_date(attendances, student.id, today)
           THEN /\ reqs' = [reqs EXCEPT ![r] =
                       Done(@, IntegrityError("uq_attendance_student_date"), FALSE)]
                /\ UNCHANGED attendances
           ELSE /\ att.id <= MaxAttendanceId
                /\ attendances' = attendances \cup {att}
                /\ reqs' = [reqs EXCEPT ![r] =
                       Done(@, marked(reqs[r], student, att), TRUE)]
    /\ UNCHANGED <<clock, students, FACE_MAX_DISTANCE, out, fs>>

\* the response has been sent: the slot takes the next call
attendance_mark_return(r) ==
    /\ reqs[r].pc = "done"
    /\ reqs' = [reqs EXCEPT ![r] = IdleReq]
    /\ UNCHANGED <<clock, students, attendances, FACE_MAX_DISTANCE, out, fs>>

Before(t, u) == t.day < u.day \/ (t.day = u.day /\ t.tod < u.tod)

\* time passes
Tick ==
    /\ \E t \in Instants : Before(clock, t) /\ clock' = t
    /\ UNCHANGED <<students, attendances, reqs, FACE_MAX_DISTANCE, out, fs>>

(***************************************************************************)
(* Administration of attendance (main.py 921-944).                         *)
(***************************************************************************)
admin_clear_today ==
    /\ attendances' = {a \in attendances : a.date # clock.day}
    /\ UNCHANGED <<clock, students, reqs, FACE_MAX_DISTANCE, out, fs>>

admin_clear_all ==
    /\ attendances' = {}
    /\ UNCHANGED <<clock, students, reqs, FACE_MAX_DISTANCE, out, fs>>

admin_clear_date(d) ==
    /\ attendances' = {a \in attendances : a.date # d}
    /\ UNCHANGED <<clock, students, reqs, FACE_MAX_DISTANCE, out, fs>>

(***************************************************************************)
(* Students (main.py 1168-1261, 1384-1424).                                *)
(***************************************************************************)
\* 400 'Codigo ya existe' when the code is taken, else the row is inserted
create_student(payload) ==
    /\ IF one_or_none({s \in students : s.code = payload.code}) # None
       THEN UNCHANGED students
       ELSE /\ NextRowId(students) <= MaxStudentId
            /\ students' = students \cup
                   {Student(NextRowId(students), payload.code, payload.name,
                            payload.grade, payload.section, payload.gender)}
    /\ UNCHANGED <<clock, attendances, reqs, FACE_MAX_DISTANCE, out, fs>>

\* payload.dict(exclude_unset=True): only the fields the request carries are set
update_student(student_id, payload) ==
    /\ IF \E st \in students : st.id = student_id
       THEN students' =
               {IF st.id = student_id
                THEN [f \in DOMAIN st |->
                         IF f \in DOMAIN payload THEN payload[f] ELSE st[f]]
                ELSE st : st \in students}
       ELSE UNCHANGED students
    /\ UNCHANGED <<clock, attendances, reqs, FACE_MAX_DISTANCE, out, fs>>

(***************************************************************************)
(* The files of a student: the gallery folder db/<code> and the photo      *)
(* students/<code><ext>.  A removal may raise (a locked file, a missing    *)
(* permission): `raises' is the set of paths whose removal raises during   *)
(* the call.                                                               *)
(***************************************************************************)
possible_extensions == <<".jpg", ".jpeg", ".png", ".gif", ".bmp", ".webp">>

db_folder(code) == [root |-> "db", name |-> code, ext |-> ""]

student_photo(code, ext) == [root |-> "students", name |-> code, ext |-> ext]

\* main.py 1232-1237 and 1397-1403: shutil.rmtree(db_folder) inside
\* try/except Exception, the exception printed
rmtree_db_folder(files, code, raises) ==
    LET p == db_folder(code)
    IN  IF p \notin files THEN [fs |-> files, cleaned |-> 0, errors |-> {}]
        ELSE IF p \in raises THEN [fs |-> files, cleaned |-> 0, errors |-> {p}]
        ELSE [fs |-> files \ {p}, cleaned |-> 1, errors |-> {}]

\* main.py 1245-1254 and 1406-1416: os.remove of the first photo that can be
\* removed, from extension number i on; each failure is printed and the
\* loop goes on
RECURSIVE remove_student_photo(_, _, _, _)
remove_student_photo(files, code, raises, i) ==
    IF i > Len(possible_extensions) THEN [fs |-> files, cleaned |-> 0, errors |-> {}]
    ELSE LET p == student_photo(code, possible_extensions[i])
             rest == remove_student_photo(files, code, raises, i + 1)
         IN  IF p \notin files THEN rest
             ELSE IF p \in raises
                  THEN [rest EXCEPT !.errors = rest.errors \cup {p}]
             ELSE [fs |-> files \ {p}, cleaned |-> 1, errors |-> {}]

\* the clean-up of one student's files: what is left, how many removals
\* succeeded and which ones were only logged
clean_files(files, code, raises) ==
    LET a == rmtree_db_folder(files, code, raises)
        b == remove_student_photo(a.fs, code, raises, 1)
    IN  [fs |-> b.fs, cleaned |-> a.cleaned + b.cleaned,
         errors |-> a.errors \cup b.errors]

\* main.py 1395-1416: the loop over db.query(Student).all(); the students
\* have distinct codes, so the order of the loop does not matter
RECURSIVE clean_all_files(_, _, _)
clean_all_files(files, sts, raises) ==
    IF sts = {} THEN [fs |-> files, cleaned |-> 0, errors |-> {}]
    ELSE LET st == CHOOSE s \in sts : TRUE
             a == clean_files(files, st.code, raises)
             b == clean_all_files(a.fs, sts \ {st}, raises)
         IN  [fs |-> b.fs, cleaned |-> a.cleaned + b.cleaned,
              errors |-> a.errors \cup b.errors]

\* DELETE /students/{student_id} where a failed removal ends the call
delete_student_aborting(student_id) ==
    /\ LET st == one_or_none({s \in students : s.id = student_id})
       IN  IF st = None
           THEN /\ out' = [op |-> "delete_student", student_id |-> student_id,
                           status |-> 404, errors |-> {}, body |-> "No encontrado"]
                /\ UNCHANGED <<students, attendances, fs>>
           ELSE \E raises \in SUBSET fs :
                  LET c == clean_files(fs, st[1].code, raises)
                  IN  IF c.errors # {}
                      THEN /\ out' = [op |-> "delete_student",
                                      student_id |-> student_id, status |-> 500,
                                      errors |-> c.errors,
                                      body |-> "Internal Server Error"]
                           /\ fs' = c.fs
                           /\ UNCHANGED <<students, attendances>>
                      ELSE /\ fs' = c.fs
                           /\ students' = students \ {st[1]}
                           /\ attendances' =
                                {a \in attendances : a.student_id # student_id}
                           /\ out' = [op |-> "delete_student",
                                      student_id |-> student_id, status |-> 200,
                                      errors |-> c.errors,
                                      body |-> [deleted |-> TRUE,
                                                files_cleaned |-> TRUE]]
    /\ UNCHANGED <<clock, reqs, FACE_MAX_DISTANCE>>

\* DELETE /students/{student_id} with its response (main.py 1221-1261): the
\* files are cleaned first, every failure caught and printed; db.delete(st)
\* deletes the student and, by the relationship's cascade='all,delete', the
\* student's attendances
delete_student_answered(student_id) ==
    /\ LET st == one_or_none({s \in students : s.id = student_id})
       IN  IF st = None
           THEN /\ out' = [op |-> "delete_student", student_id |-> student_id,
                           status |-> 404, errors |-> {}, body |-> "No encontrado"]
                /\ UNCHANGED <<students, attendances, fs>>
           ELSE \E raises \in SUBSET fs :
                  LET c == clean_files(fs, st[1].code, raises)
                  IN  /\ fs' = c.fs
                      /\ students' = students \ {st[1]}
                      /\ attendances' =
                           {a \in attendances : a.student_id # student_id}
                      /\ out' = [op |-> "delete_student",
                                 student_id |-> student_id, status |-> 200,
                                 errors |-> c.errors,
                                 body |-> [deleted |-> TRUE, files_cleaned |-> TRUE]]
    /\ UNCHANGED <<clock, reqs, FACE_MAX_DISTANCE>>

\* DELETE /students/{student_id}, the response left out: what the call does
\* to the tables and the files
delete_student(student_id) ==
    /\ IF \E st \in students : st.id = student_id
       THEN /\ students' = {st \in students : st.id # student_id}
            /\ attendances' = {a \in attendances : a.student_id # student_id}
            /\ \E raises \in SUBSET fs :
                 fs' = clean_files(
                         fs, (CHOOSE st \in students : st.id = student_id).code,
                         raises).fs
       ELSE UNCHANGED <<students, attendances, fs>>
    /\ UNCHANGED <<clock, reqs, FACE_MAX_DISTANCE, out>>

\* POST /admin/clear_students_all with its response (main.py 1384-1424): the
\* files of every student are cleaned, every failure caught and printed;
\* db.query(Student).delete() is one DELETE statement on the table students:
\* the relationship's cascade is not run and SQLite enforces no foreign key
admin_clear_students_all_answered ==
    /\ \E raises \in SUBSET fs :
         LET c == clean_all_files(fs, students, raises)
         IN  /\ fs' = c.fs
             /\ out' = [op |-> "admin_clear_students_all", status |-> 200,
                        errors |-> c.errors,
                        body |-> [deleted |-> Cardinality(students),
                                  files_cleaned |-> c.cleaned]]
    /\ students' = {}
    /\ UNCHANGED <<clock, attendances, reqs, FACE_MAX_DISTANCE>>

\* POST /admin/clear_students_all, the response left out
admin_clear_students_all ==
    /\ students' = {}
    /\ \E raises \in SUBSET fs : fs' = clean_all_files(fs, students, raises).fs
    /\ UNCHANGED <<clock, attendances, reqs, FACE_MAX_DISTANCE, out>>

(***************************************************************************)
(* The service: every handler may run between any two statements of the    *)
(* attendance_mark calls in flight.                                        *)
(***************************************************************************)
Candidate(code, distance) == [identity |-> IdentityPath(code), distance |-> distance]

\* the faces the camera sees in this specification: a clear match or nobody
ClearMatches == {<< >>} \cup {<<Candidate(c, 26)>> : c \in Codes}

StudentIds == 1..MaxStudentId

CreatePayloads ==
    [code : Codes, name : Names, grade : {None}, section : {None}, gender : {None}]

UpdatePayloads == {[name |-> n] : n \in Names}

Init ==
    /\ clock = At(0, 27000)
    /\ students = {}
    /\ attendances = {}
    /\ reqs = [r \in Req |-> IdleReq]
    /\ FACE_MAX_DISTANCE = None
    /\ out = NoOut
    /\ fs = {}

Next ==
    \/ Tick
    \/ \E r \in Req :
        attendance_mark_find(r, ClearMatches, {None}, {FACE_MIN_MARGIN}, {FACE_MODEL})
    \/ \E r \in Req : attendance_mark_add_student(r)
    \/ \E r \in Req : attendance_mark_read_today(r)
    \/ \E r \in Req : attendance_mark_insert(r)
    \/ \E r \in Req : attendance_mark_return(r)
    \/ admin_clear_today
    \/ admin_clear_all
    \/ \E d \in Days : admin_clear_date(d)
    \/ \E payload \in CreatePayloads : create_student(payload)
    \/ \E id \in StudentIds, payload \in UpdatePayloads : update_student(id, payload)
    \/ \E id \in StudentIds : delete_student(id)
    \/ admin_clear_students_all

Spec == Init /\ [][Next]_vars

(***************************************************************************)
(* The recognition decision on every answer of the matching engine: one    *)
(* call at a time, over all candidate lists, overrides and model names.    *)
(***************************************************************************)
Distances == {26, 30, 31, 121}

Candidates == {Candidate(c, d) : c \in Codes, d \in Distances}

CandLists == UNION {[1..n -> Candidates] : n \in 0..MaxCands}

InitResolve ==
    /\ clock \in Instants
    /\ students = {}
    /\ attendances = {}
    /\ reqs = [r \in Req |-> IdleReq]
    /\ FACE_MAX_DISTANCE \in {None, Some(28)}
    /\ out = NoOut
    /\ fs = {}

NextResolve ==
    \/ attendance_mark_find("r1", CandLists, {None, Some(30)}, {0, FACE_MIN_MARGIN},
                            {ArcFace, ARCFACE, Facenet512, VGGFace})
    \/ attendance_mark_add_student("r1")
    \/ attendance_mark_read_today("r1")
    \/ attendance_mark_insert("r1")
    \/ attendance_mark_return("r1")

SpecResolve == InitResolve /\ [][NextResolve]_vars

(***************************************************************************)
(* Dates as the metrics handlers compute them (main.py 1016-1030).         *)
(***************************************************************************)
\* days from 0001-01-01 to the first day of year y
DaysBeforeYear(y) ==
    LET p == y - 1 IN p * 365 + p \div 4 - p \div 100 + p \div 400

RECURSIVE DaysBeforeMonth(_, _)
DaysBeforeMonth(y, m) ==
    IF m = 1 THEN 0 ELSE DaysBeforeMonth(y, m - 1) + DaysInMonth(y, m - 1)

toordinal(dt) == DaysBeforeYear(dt.y) + DaysBeforeMonth(dt.y, dt.m) + dt.d

\* date(y, m, d) as a day number
date(y, m, d) == toordinal([y |-> y, m |-> m, d |-> d]) - toordinal(Epoch)

\* date.weekday(): Monday is 0
weekday(day) == (toordinal(Epoch) + day + 6) % 7

\* main.py 1027-1030: the day before the first day of the next month
month_end(today) ==
    LET dt == DateOf(today)
    IN  IF dt.m = 12 THEN date(dt.y + 1, 1, 1) - 1
        ELSE date(dt.y, dt.m + 1, 1) - 1

\* a named period replaces bounds the request carries
period_range_period_first(period, start, end, today) ==
    IF period = Some("day") THEN [start |-> Some(today), end |-> Some(today)]
    ELSE IF period = Some("week")
    THEN [start |-> Some(today - weekday(today)),
          end |-> Some(today - weekday(today) + 6)]
    ELSE IF period = Some("month")
    THEN [start |-> Some(today - (DateOf(today).d - 1)),
          end |-> Some(month_end(today))]
    ELSE [start |-> start, end |-> end]

\* main.py 1015-1030: start and end after the named period is resolved
period_range(period, start, end, today) ==
    IF period # None /\ period # Some("") /\ start = None /\ end = None
    THEN IF period = Some("day")
         THEN [start |-> Some(today), end |-> Some(today)]
         ELSE IF period = Some("week")
         THEN [start |-> Some(today - weekday(today)),
               end |-> Some(today - weekday(today) + 6)]
         ELSE IF period = Some("month")
         THEN [start |-> Some(today - (DateOf(today).d - 1)),
               end |-> Some(month_end(today))]
         ELSE [start |-> start, end |-> end]
    ELSE [start |-> start, end |-> end]

(***************************************************************************)
(* Metrics (main.py 988-1160).  A percentage is a number of hundredths of  *)
(* a percent (60.0 -> 6000); a computed value is None when its division    *)
(* raised ZeroDivisionError.                                               *)
(***************************************************************************)
\* round(part / whole * 100.0, 2), ties to even
round2(part, whole) ==
    LET q == (part * 10000) \div whole
        r == (part * 10000) % whole
    IN  IF 2 * r > whole \/ (2 * r = whole /\ q % 2 = 1) THEN q + 1 ELSE q

\* the division without its guard
pct_unguarded(part, whole) ==
    IF whole = 0 THEN None ELSE Some(round2(part, whole))

\* (part / whole * 100.0) if whole else 0.0
pct_or_zero(part, whole) ==
    IF whole # 0 THEN Some(round2(part, whole)) ELSE Some(0)

\* 'if grade:' and 'if section:' of an optional string
Truthy(opt) == opt # None /\ opt # Some("")

\* query(Attendance, Student).join(Student, Student.id == Attendance.student_id)
joined ==
    {[att |-> a, st |-> s] : a \in attendances, s \in students} \cap
    {p \in [att : attendances, st : students] : p.st.id = p.att.student_id}

\* the filters of main.py 1036-1045 (and 1133-1140) over the joined rows
filtered(rows, start, end, grade, section) ==
    {p \in rows :
        /\ (start # None => p.att.date >= start[1])
        /\ (end # None => p.att.date <= end[1])
        /\ (Truthy(grade) => p.st.grade = grade)
        /\ (Truthy(section) => p.st.section = section)}

\* main.py 1052-1057
student_q(grade, section) ==
    {s \in students :
        /\ (Truthy(grade) => s.grade = grade)
        /\ (Truthy(section) => s.section = section)}

\* every student with a record at any date counts as present
students_with_attendance_any_date(start, end, grade, section) ==
    {p.att.student_id : p \in filtered(joined, None, None, grade, section)}

\* main.py 1063-1086: the distinct student ids of the absentee computation
students_with_attendance(start, end, grade, section) ==
    IF start # None /\ end # None
    THEN {p.att.student_id : p \in filtered(joined, start, end, grade, section)}
    ELSE {p.att.student_id : p \in filtered(joined, None, None, grade, section)}

metrics_summary_resp(period, grade, section, start0, end0) ==
    LET rng == period_range(period, start0, end0, clock.day)
        start == rng.start
        end == rng.end
        q == filtered(joined, start, end, grade, section)
        total == Cardinality(q)
        punctual == Cardinality({p \in q : p.att.status = "Puntual"})
        late == Cardinality({p \in q : p.att.status = "Tarde"})
        students_total == Cardinality(student_q(grade, section))
        punctuality == pct_or_zero(punctual, total)
        late_pct == pct_or_zero(late, total)
        absent_students ==
            students_total
                - Cardinality(students_with_attendance(start, end, grade, section))
        absent_pct == pct_or_zero(absent_students, students_total)
        request == [period |-> period, grade |-> grade, section |-> section,
                    start |-> start0, end |-> end0]
    IN  IF None \in {punctuality, late_pct, absent_pct}
        THEN [op |-> "metrics_summary", request |-> request, status |-> 500,
              body |-> "ZeroDivisionError"]
        ELSE [op |-> "metrics_summary", request |-> request, status |-> 200,
              start |-> start, end |-> end, absent_students |-> absent_students,
              body |-> [students_total |-> students_total,
                        records_total |-> total,
                        punctuality_pct |-> punctuality[1],
                        late_pct |-> late_pct[1],
                        absent_pct |-> absent_pct[1]]]

\* GET /metrics/summary
metrics_summary(Periods, Grades, Sections, Starts, Ends) ==
    /\ \E period \in Periods, grade \in Grades, section \in Sections,
          start \in Starts, end \in Ends :
            out' = metrics_summary_resp(period, grade, section, start, end)
    /\ UNCHANGED <<clock, students, attendances, reqs, FACE_MAX_DISTANCE, fs>>

\* main.py 996
absent_today(total_students, total_today) ==
    IF total_students - total_today > 0 THEN total_students - total_today ELSE 0

metrics_today_resp ==
    LET today == clock.day
        total_students == Cardinality(students)
        q == {a \in attendances : a.date = today}
        total_today == Cardinality(q)
        punctual == Cardinality({a \in q : a.status = "Puntual"})
        late == Cardinality({a \in q : a.status = "Tarde"})
    IN  [op |-> "metrics_today", status |-> 200,
         body |-> [total_today |-> total_today, punctual_today |-> punctual,
                   late_today |-> late,
                   absent_today |-> absent_today(total_students, total_today)]]

\* GET /metrics/today
metrics_today ==
    /\ out' = metrics_today_resp
    /\ UNCHANGED <<clock, students, attendances, reqs, FACE_MAX_DISTANCE, fs>>

Buckets == {"7:30-7:45", "7:45-8:00", "8:00-8:15", "8:15-8:30", "8:30+"}

\* main.py 1149-1158: the bucket a time of day is counted in
bucket_of(tod) ==
    IF tod >= 7 * 3600 + 30 * 60 /\ tod < 7 * 3600 + 45 * 60 THEN "7:30-7:45"
    ELSE IF tod < 8 * 3600 THEN "7:45-8:00"
    ELSE IF tod < 8 * 3600 + 15 * 60 THEN "8:00-8:15"
    ELSE IF tod < 8 * 3600 + 30 * 60 THEN "8:15-8:30"
    ELSE "8:30+"

\* st.gender or '-'
gender_key(st) == IF Truthy(st.gender) THEN st.gender[1] ELSE "-"

metrics_detailed_resp(start, end, grade, section) ==
    LET rows == filtered(joined, start, end, grade, section)
        genders == {gender_key(p.st) : p \in rows}
    IN  [op |-> "metrics_detailed", status |-> 200,
         request |-> [start |-> start, end |-> end, grade |-> grade,
                      section |-> section],
         body |-> [gender_distribution |->
                       [g \in genders |->
                           Cardinality({p \in rows : gender_key(p.st) = g})],
                   arrival_buckets |->
                       [b \in Buckets |->
                           Cardinality({p \in rows : bucket_of(p.att.time.tod) = b})],
                   count |-> Cardinality(rows)]]

\* GET /metrics/detailed
metrics_detailed(Starts, Ends, Grades, Sections) ==
    /\ \E start \in Starts, end \in Ends, grade \in Grades, section \in Sections :
            out' = metrics_detailed_resp(start, end, grade, section)
    /\ UNCHANGED <<clock, students, attendances, reqs, FACE_MAX_DISTANCE, fs>>

\* the response is sent
respond ==
    /\ out # NoOut
    /\ out' = NoOut
    /\ UNCHANGED <<clock, students, attendances, reqs, FACE_MAX_DISTANCE, fs>>

(***************************************************************************)
(* The aggregator over drawn tables: a registry of up to MaxRegistry       *)
(* students with grades, sections and genders, records of today and of     *)
(* the day before at times around the bucket limits, records of deleted    *)
(* students among them.                                                    *)
(***************************************************************************)
MaxRegistry == 5

RosterCodes == <<"ana", "bob", "cal", "dee", "eve", "fay", "gus">>

\* 2024-12-31 (Tuesday), 2025-01-01, 2025-01-06 (Monday), 2025-02-28
SummaryDays == {1, 2, 7, 60}

GradeMaps ==
    {[i \in 1..(MaxRegistry + 1) |-> Some("1")],
     [i \in 1..(MaxRegistry + 1) |->
        IF i = 1 THEN None ELSE IF i % 2 = 0 THEN Some("1") ELSE Some("2")]}

SectionOfRoster(i) == IF i % 3 = 0 THEN Some("B") ELSE Some("A")

GenderOfRoster(i) == IF i % 3 = 1 THEN Some("F") ELSE IF i % 3 = 2 THEN Some("M") ELSE None

\* 07:30:00, 07:30:01, 07:45, 08:00, 08:15, 08:30, 09:00
TodToday == <<27000, 27001, 27900, 28800, 29700, 30600, 32400>>

\* 07:00, 07:44:59
TodBefore == <<25200, 27899>>

Roster(n, grades) ==
    {Student(i, RosterCodes[i], "Ana", grades[i], SectionOfRoster(i),
             GenderOfRoster(i)) : i \in 1..n}

\* the rows of the day before for the students of Q, then today's for those of P
Ledger(today, P, Q) ==
    {Attendance(Cardinality({j \in Q : j <= i}), i, today - 1,
                At(today - 1, TodBefore[i]), status_of(At(today - 1, TodBefore[i])))
        : i \in Q}
    \cup
    {Attendance(Cardinality(Q) + Cardinality({j \in P : j <= i}), i, today,
                At(today, TodToday[i]), status_of(At(today, TodToday[i])))
        : i \in P}

InitSummary ==
    /\ \E today \in SummaryDays : clock = At(today, 12 * 3600)
    /\ \E n \in 0..MaxRegistry, grades \in GradeMaps : students = Roster(n, grades)
    /\ \E P \in SUBSET (1..MaxRegistry), Q \in {{}, {1, 2}} :
            attendances = Ledger(clock.day, P, Q)
    /\ reqs = [r \in Req |-> IdleReq]
    /\ FACE_MAX_DISTANCE = None
    /\ out = NoOut
    /\ fs = {}

DateParams == {None, Some(clock.day - 1), Some(clock.day)}

NextSummary ==
    \/ /\ out = NoOut
       /\ metrics_summary({None, Some("day"), Some("week"), Some("month")},
                          {None, Some("1")}, {None, Some("A")},
                          DateParams, DateParams)
    \/ /\ out = NoOut
       /\ metrics_detailed(DateParams, DateParams, {None, Some("1")}, {None})
    \/ respond

SpecSummary == InitSummary /\ [][NextSummary]_vars

(***************************************************************************)
(* Listings, history and the report (main.py 894-917, 958-985, 1099-1127,  *)
(* 1188-1206, 1363-1381, 1428-1636).                                       *)
(***************************************************************************)
\* the orders in which a query can return the rows of S
SeqsOf(S) ==
    {f \in [1..Cardinality(S) -> S] : \A i, j \in 1..Cardinality(S) : f[i] = f[j] => i = j}

\* order_by(Attendance.time.desc()): rows of equal time come in any order
order_by_time_desc(S) ==
    {f \in SeqsOf(S) : \A i, j \in 1..Cardinality(S) : i < j => ~Before(f[i].time, f[j].time)}

\* .limit(n)
limit_(rows, n) == SubSeq(rows, 1, IF Len(rows) < n THEN Len(rows) ELSE n)

\* the student a joined attendance row comes with
StudentOf(a) == CHOOSE s \in students : s.id = a.student_id

\* the attendance rows that join a student
with_student(rows) == {a \in rows : \E s \in students : s.id = a.student_id}

\* strftime('%H:%M:%S') as its three numbers
strftime_HMS(t) == <<t.tod \div 3600, (t.tod % 3600) \div 60, t.tod % 60>>

\* GET /attendance/today
attendance_today ==
    /\ \E rows \in order_by_time_desc(
                       with_student({a \in attendances : a.date = clock.day})) :
         out' = [op |-> "attendance_today", status |-> 200,
                 body |-> [i \in 1..Len(rows) |->
                     LET att == rows[i]
                         st == StudentOf(att)
                     IN  [student_id |-> st.id, code |-> st.code, name |-> st.name,
                          grade |-> st.grade, section |-> st.section,
                          gender |-> st.gender, date |-> str_date(att.date),
                          time |-> strftime_HMS(att.time), status |-> att.status]]]
    /\ UNCHANGED <<clock, students, attendances, reqs, FACE_MAX_DISTANCE, fs>>

\* GET /admin/attendance/counts
admin_counts ==
    /\ out' = [op |-> "admin_counts", status |-> 200,
               body |-> [total |-> Cardinality(attendances),
                         today |-> Cardinality({a \in attendances : a.date = clock.day}),
                         date |-> str_date(clock.day)]]
    /\ UNCHANGED <<clock, students, attendances, reqs, FACE_MAX_DISTANCE, fs>>

\* GET /attendance/recent
attendance_recent(Limits) ==
    /\ \E limit \in Limits, all \in order_by_time_desc(with_student(attendances)) :
         LET rows == limit_(all, limit)
         IN  out' = [op |-> "attendance_recent", status |-> 200,
                     body |-> [i \in 1..Len(rows) |->
                         LET att == rows[i]
                             st == StudentOf(att)
                         IN  [name |-> st.name, grade |-> st.grade,
                              section |-> st.section, date |-> str_date(att.date),
                              time |-> strftime_HMS(att.time), status |-> att.status]]]
    /\ UNCHANGED <<clock, students, attendances, reqs, FACE_MAX_DISTANCE, fs>>

\* strftime('%a')
strftime_a(day) == <<"Mon", "Tue", "Wed", "Thu", "Fri", "Sat", "Sun">>[weekday(day) + 1]

\* GET /metrics/weekly: the seven days that end today, oldest first
metrics_weekly ==
    /\ LET total_students == Cardinality(students)
           d(k) == clock.day - (7 - k)
           pct(k) == pct_or_zero(Cardinality({a \in attendances : a.date = d(k)}),
                                 total_students)
       IN  out' = [op |-> "metrics_weekly", status |-> 200,
                   body |-> [labels |-> [k \in 1..7 |-> strftime_a(d(k))],
                             attendance_pct |-> [k \in 1..7 |-> pct(k)[1]]]]
    /\ UNCHANGED <<clock, students, attendances, reqs, FACE_MAX_DISTANCE, fs>>

\* st.grade or 'Sin grado'
grade_key(st) == IF Truthy(st.grade) THEN st.grade[1] ELSE "Sin grado"

\* GET /metrics/by-grade
metrics_by_grade ==
    /\ LET rows == {p \in joined : p.att.date = clock.day}
           keys == {grade_key(p.st) : p \in rows}
       IN  out' = [op |-> "metrics_by_grade", status |-> 200,
                   body |-> [k \in keys |->
                                Cardinality({p \in rows : grade_key(p.st) = k})]]
    /\ UNCHANGED <<clock, students, attendances, reqs, FACE_MAX_DISTANCE, fs>>

\* GET /students, without a search text: order_by(Student.name), rows of equal
\* name in any order
list_students(Grades, Sections) ==
    /\ \E grade \in Grades, section \in Sections :
       \E rows \in SeqsOf(student_q(grade, section)) :
         out' = [op |-> "list_students", status |-> 200, body |-> rows]
    /\ UNCHANGED <<clock, students, attendances, reqs, FACE_MAX_DISTANCE, fs>>

\* GET /students/{student_id}
get_student(Ids) ==
    /\ \E student_id \in Ids :
         LET st == one_or_none({s \in students : s.id = student_id})
         IN  out' = IF st = None
                    THEN [op |-> "get_student", status |-> 404, body |-> "No encontrado"]
                    ELSE [op |-> "get_student", status |-> 200, body |-> st[1]]
    /\ UNCHANGED <<clock, students, attendances, reqs, FACE_MAX_DISTANCE, fs>>

\* the oldest rows first
history_rows_oldest_first(student_id, limit) ==
    {limit_([i \in 1..Len(f) |-> f[Len(f) + 1 - i]], limit) :
        f \in order_by_time_desc({a \in attendances : a.student_id = student_id})}

\* main.py 1368-1374
history_rows(student_id, limit) ==
    {limit_(f, limit) :
        f \in order_by_time_desc({a \in attendances : a.student_id = student_id})}

\* GET /students/{student_id}/attendance; rows are the rows the body is made of
student_attendance_history(Ids, Limits) ==
    /\ \E student_id \in Ids, limit \in Limits :
         IF one_or_none({s \in students : s.id = student_id}) = None
         THEN out' = [op |-> "student_attendance_history", student_id |-> student_id,
                      limit |-> limit, status |-> 404, body |-> "No encontrado"]
         ELSE \E rows \in history_rows(student_id, limit) :
                out' = [op |-> "student_attendance_history", student_id |-> student_id,
                        limit |-> limit, status |-> 200, rows |-> rows,
                        body |-> [i \in 1..Len(rows) |->
                                    [date |-> str_date(rows[i].date),
                                     time |-> strftime_HMS(rows[i].time),
                                     status |-> rows[i].status]]]
    /\ UNCHANGED <<clock, students, attendances, reqs, FACE_MAX_DISTANCE, fs>>

\* main.py 1428-1433: target_date is a date, so time is its midnight
AbsentAttendance(student, target_date) ==
    [student |-> student, time |-> At(target_date, 0), status |-> "Ausente",
     confidence |-> 0]

\* str.isdigit() and str(int(.)), on the grade texts of the model
isdigit(s) == s \in {"1", "2", "01"}
str_int(s) == IF s = "01" THEN "1" ELSE s

\* str.upper(), on the section texts of the model
upper(s) == IF s = "a" THEN "A" ELSE IF s = "b" THEN "B" ELSE s

Digit(n) == <<"0", "1", "2", "3", "4", "5", "6", "7", "8", "9">>[n + 1]

\* strftime('%H:%M') as its five characters
strftime_HM(t) ==
    LET hh == t.tod \div 3600
        mm == (t.tod % 3600) \div 60
    IN  <<Digit(hh \div 10), Digit(hh % 10), ":", Digit(mm \div 10), Digit(mm % 10)>>

\* main.py 1589: a value with strftime and hour is formatted
time_str(att) ==
    IF {"day", "tod"} \subseteq DOMAIN att.time THEN strftime_HM(att.time)
    ELSE <<"-", "-", ":", "-", "-">>

\* the grade and section filters of the report (main.py 1455-1458)
report_group(grade, section) ==
    {s \in students :
        /\ (Truthy(grade) /\ isdigit(grade[1])) => s.grade = Some(str_int(grade[1]))
        /\ Truthy(section) => s.section = Some(upper(section[1]))}

\* main.py 1450-1452, 1485-1493: the records whose time falls on target_date
attended_query(target_date, grade, section) ==
    {a \in with_student(attendances) :
        /\ a.time.day = target_date
        /\ StudentOf(a) \in report_group(grade, section)}

\* main.py 1589-1599
report_row(i, att) ==
    [n |-> i, code |-> att.student.code, name |-> att.student.name,
     grade |-> IF att.student.grade = None THEN "None" ELSE att.student.grade[1],
     section |-> att.student.section, status |-> att.status, time |-> time_str(att)]

\* the rows of the report: attendances is the list the table is made of
report(target_date, grade, section, status, recs, absents) ==
    LET attendances_ ==
            IF status = Some("Ausente") THEN absents
            ELSE IF ~Truthy(status) THEN recs \o absents
            ELSE recs
    IN  [op |-> "export_attendance_pdf", status |-> 200,
         request |-> [date |-> target_date, grade |-> grade, section |-> section,
                      status |-> status],
         attendances |-> attendances_,
         data |-> [i \in 1..Len(attendances_) |-> report_row(i, attendances_[i])]]

\* the records of the report with their students, in any order
report_records(target_date, grade, section, status) ==
    SeqsOf({[student |-> StudentOf(a), time |-> a.time, status |-> a.status,
             id |-> a.id]
              : a \in {b \in attended_query(target_date, grade, section) :
                         (Truthy(status) /\ status # Some("Ausente"))
                             => b.status = status[1]}})

\* the absences made up for the students without a record, in any order
report_absents(target_date, grade, section) ==
    SeqsOf({AbsentAttendance(s, target_date)
              : s \in {t \in report_group(grade, section) :
                         \A a \in attended_query(target_date, grade, section) :
                             a.student_id # t.id}})

\* the report keeps the absences it made up in the ledger
export_attendance_pdf_storing(Dates, Grades, Sections, Statuses) ==
    /\ \E target_date \in Dates, grade \in Grades, section \in Sections,
          status \in Statuses :
       \E recs \in report_records(target_date, grade, section, status),
          absents \in report_absents(target_date, grade, section) :
         /\ out' = report(target_date, grade, section, status, recs, absents)
         /\ attendances' = attendances \cup
                {Attendance(0, absents[i].student.id, target_date, absents[i].time,
                            absents[i].status) : i \in 1..Len(absents)}
    /\ UNCHANGED <<clock, students, reqs, FACE_MAX_DISTANCE, fs>>

\* GET /export/pdf, for a well-formed date
export_attendance_pdf(Dates, Grades, Sections, Statuses) ==
    /\ \E target_date \in Dates, grade \in Grades, section \in Sections,
          status \in Statuses :
       \E recs \in report_records(target_date, grade, section, status),
          absents \in report_absents(target_date, grade, section) :
         out' = report(target_date, grade, section, status, recs, absents)
    /\ UNCHANGED <<clock, students, attendances, reqs, FACE_MAX_DISTANCE, fs>>

\* the operations that write, with one attendance_mark call at a time
Write ==
    \/ attendance_mark_find("r1", ClearMatches, {None}, {FACE_MIN_MARGIN}, {FACE_MODEL})
    \/ attendance_mark_add_student("r1")
    \/ attendance_mark_read_today("r1")
    \/ attendance_mark_insert("r1")
    \/ attendance_mark_return("r1")
    \/ admin_clear_today
    \/ admin_clear_all
    \/ \E d \in Days : admin_clear_date(d)
    \/ \E payload \in CreatePayloads : create_student(payload)
    \/ \E id \in StudentIds, payload \in UpdatePayloads : update_student(id, payload)
    \/ \E id \in StudentIds : delete_student(id)
    \/ admin_clear_students_all

(***************************************************************************)
(* The service answering read-side calls between its other operations:    *)
(* one attendance_mark call at a time, every handler that writes, every    *)
(* handler that reads; a response is sent before the next operation.       *)
(***************************************************************************)
\* no response is waiting to be sent
Idle == out = NoOut

NextReads ==
    \/ Idle /\ Tick
    \/ Idle /\ attendance_mark_find("r1", ClearMatches, {None}, {FACE_MIN_MARGIN},
                                     {FACE_MODEL})
    \/ Idle /\ attendance_mark_add_student("r1")
    \/ Idle /\ attendance_mark_read_today("r1")
    \/ Idle /\ attendance_mark_insert("r1")
    \/ Idle /\ attendance_mark_return("r1")
    \/ Idle /\ admin_clear_today
    \/ Idle /\ admin_clear_all
    \/ Idle /\ \E d \in Days : admin_clear_date(d)
    \/ Idle /\ \E payload \in CreatePayloads : create_student(payload)
    \/ Idle /\ \E id \in StudentIds, payload \in UpdatePayloads :
                    update_student(id, payload)
    \/ Idle /\ \E id \in StudentIds : delete_student(id)
    \/ Idle /\ admin_clear_students_all
    \/ Idle /\ attendance_today
    \/ Idle /\ admin_counts
    \/ Idle /\ attendance_recent({1, 20})
    \/ Idle /\ metrics_today
    \/ Idle /\ metrics_summary({None, Some("day")}, {None}, {None},
                                {None, Some(clock.day)}, {None, Some(clock.day)})
    \/ Idle /\ metrics_weekly
    \/ Idle /\ metrics_by_grade
    \/ Idle /\ metrics_detailed({None, Some(clock.day)}, {None}, {None}, {None})
    \/ Idle /\ list_students({None}, {None})
    \/ Idle /\ get_student(StudentIds)
    \/ Idle /\ student_attendance_history(StudentIds, {1, 2, 30})
    \/ Idle /\ export_attendance_pdf(Days, {None}, {None},
                                      {None, Some("Ausente"), Some("Puntual")})
    \/ respond

SpecReads == Init /\ [][NextReads]_vars

(***************************************************************************)
(* The round trip of a new student: POST /students answered, then one      *)
(* attendance_mark call that recognises the student's code, then the       *)
(* student's history with limit 1; before it, any operations of the        *)
(* service.                                                                *)
(***************************************************************************)
\* POST /students with its response (main.py 1168-1185)
create_student_answered(payload) ==
    /\ IF one_or_none({s \in students : s.code = payload.code}) # None
       THEN /\ out' = [op |-> "create_student", status |-> 400,
                       body |-> "Codigo ya existe"]
            /\ UNCHANGED students
       ELSE LET st == Student(NextRowId(students), payload.code, payload.name,
                              payload.grade, payload.section, payload.gender)
            IN  /\ st.id <= MaxStudentId
                /\ students' = students \cup {st}
                /\ out' = [op |-> "create_student", status |-> 200, body |-> st]
    /\ UNCHANGED <<clock, attendances, reqs, FACE_MAX_DISTANCE, fs>>

\* the student has just been enrolled
Enrolled == out.op = "create_student" /\ out.status = 200

NextRoundTrip ==
    \/ (Idle \/ Enrolled) /\ Tick
    \/ Idle /\ Write
    \/ /\ Idle
       /\ reqs["r1"].pc = "idle"
       /\ \E payload \in CreatePayloads : create_student_answered(payload)
    \/ /\ Enrolled
       /\ attendance_mark_find("r1", {<<Candidate(out.body.code, 26)>>}, {None},
                               {FACE_MIN_MARGIN}, {FACE_MODEL})
    \/ Enrolled /\ attendance_mark_read_today("r1")
    \/ Enrolled /\ attendance_mark_insert("r1")
    \/ /\ Enrolled
       /\ reqs["r1"].pc = "done"
       /\ student_attendance_history({out.body.id}, {1})
    \/ respond

SpecRoundTrip == Init /\ [][NextRoundTrip]_vars

(***************************************************************************)
(* Enrollment, one step per database statement (main.py 1168-1185,         *)
(* 1265-1311): the lookup by code, then the insert and its commit.  Form   *)
(* texts are sequences of characters.                                      *)
(***************************************************************************)
\* str.strip(), of spaces
strip(s) ==
    LET kept == {i \in 1..Len(s) : s[i] # " "}
    IN  IF kept = {} THEN << >>
        ELSE SubSeq(s, CHOOSE i \in kept : \A j \in kept : i <= j,
                       CHOOSE i \in kept : \A j \in kept : j <= i)

\* str.replace(' ', '_')
replace_spaces(s) == [i \in 1..Len(s) |-> IF s[i] = " " THEN "_" ELSE s[i]]

\* the text a sequence of characters spells, for the texts of the model
text(s) ==
    CASE s = <<"a", "n", "a">> -> "ana"
      [] s = <<"A", "n", "a">> -> "Ana"
      [] s = <<"b", "o", "b">> -> "bob"
      [] s = <<"b", "o", "_", "b">> -> "bo_b"

\* main.py 1276: (code or name).strip().lower().replace(' ', '_')
form_code(code, name) ==
    replace_spaces(lower(strip(
        IF code # None /\ code[1] # << >> THEN code[1] ELSE name)))

\* HTTPException(400, detail='Codigo ya existe')
CodeTaken == [status |-> "error", code |-> 400, detail |-> "Codigo ya existe"]

\* a call of create_student or create_student_form between its lookup and its insert
Creating(st) == [pc |-> "create_commit", st |-> st]

\* the call has answered
Created(resp, inserted) == [pc |-> "done", resp |-> resp, inserted |-> inserted]

\* main.py 1170-1172: the lookup of POST /students
create_student_query(r, payload) ==
    /\ reqs[r].pc = "idle"
    /\ reqs' = [reqs EXCEPT ![r] =
           IF one_or_none({s \in students : s.code = payload.code}) # None
           THEN Created(CodeTaken, FALSE)
           ELSE Creating([code |-> payload.code, name |-> payload.name,
                          grade |-> payload.grade, section |-> payload.section,
                          gender |-> payload.gender])]
    /\ UNCHANGED <<clock, students, attendances, FACE_MAX_DISTANCE, out, fs>>

\* main.py 1285: os.path.splitext(photo.filename)[1] or '.jpg', for the
\* extension ext of the file name
photo_ext(ext) == IF ext = "" THEN ".jpg" ELSE ext

\* main.py 1276-1298: the code, the lookup and the files of POST
\* /students/form, for a non-empty name; the photo is written to
\* students/<code><ext> and the gallery folder db/<code> is made before the
\* row is committed
create_student_form_query(r, FormNames, FormCodes, Photos) ==
    /\ reqs[r].pc = "idle"
    /\ \E name \in FormNames, code \in FormCodes, photo \in Photos :
         LET code_ == text(form_code(code, name))
             taken == one_or_none({s \in students : s.code = code_}) # None
         IN  /\ reqs' = [reqs EXCEPT ![r] =
                   IF taken
                   THEN Created(CodeTaken, FALSE)
                   ELSE Creating([code |-> code_, name |-> text(name),
                                  grade |-> None, section |-> None,
                                  gender |-> None])]
             /\ fs' = IF taken \/ photo = None THEN fs
                      ELSE fs \cup {student_photo(code_, photo_ext(photo[1])),
                                    db_folder(code_)}
    /\ UNCHANGED <<clock, students, attendances, FACE_MAX_DISTANCE, out>>

\* main.py 1173-1185 and 1305-1309: db.add(st), db.commit(); the unique
\* constraint on code rejects a row whose code was taken meanwhile
create_student_commit(r) ==
    /\ reqs[r].pc = "create_commit"
    /\ LET st == reqs[r].st
           row == Student(NextRowId(students), st.code, st.name, st.grade,
                          st.section, st.gender)
       IN  IF uq_students_code(students, st.code)
           THEN /\ reqs' = [reqs EXCEPT ![r] =
                       Created(IntegrityError("students.code"), FALSE)]
                /\ UNCHANGED students
           ELSE /\ row.id <= MaxStudentId
                /\ students' = students \cup {row}
                /\ reqs' = [reqs EXCEPT ![r] =
                       Created([status |-> "ok", code |-> 200, student |-> row], TRUE)]
    /\ UNCHANGED <<clock, attendances, FACE_MAX_DISTANCE, out, fs>>

FormNames == {<<"A", "n", "a">>}

FormCodes == {None, Some(<<" ", "A", "n", "a">>), Some(<<"b", "o", " ", "b">>)}

NextEnroll ==
    \/ \E r \in Req, payload \in CreatePayloads : create_student_query(r, payload)
    \/ \E r \in Req : create_student_form_query(r, FormNames, FormCodes, {None})
    \/ \E r \in Req : create_student_commit(r)
    \/ \E r \in Req :
        attendance_mark_find(r, ClearMatches, {None}, {FACE_MIN_MARGIN}, {FACE_MODEL})
    \/ \E r \in Req : attendance_mark_add_student(r)
    \/ \E r \in Req : attendance_mark_read_today(r)
    \/ \E r \in Req : attendance_mark_insert(r)
    \/ \E r \in Req : attendance_mark_return(r)
    \/ \E id \in StudentIds : delete_student(id)
    \/ admin_clear_students_all

SpecEnroll == Init /\ [][NextEnroll]_vars

(***************************************************************************)
(* The files: students are enrolled with and without a photo, marked,      *)
(* deleted singly and in bulk; any removal of a file may raise.            *)
(***************************************************************************)
Photos == {None, Some(""), Some(".png")}

NextFiles ==
    \/ Idle /\ create_student_form_query("r1", FormNames, FormCodes, Photos)
    \/ Idle /\ create_student_commit("r1")
    \/ Idle /\ \E payload \in CreatePayloads : create_student(payload)
    \/ /\ Idle
       /\ attendance_mark_find("r1", ClearMatches, {None}, {FACE_MIN_MARGIN},
                               {FACE_MODEL})
    \/ Idle /\ attendance_mark_add_student("r1")
    \/ Idle /\ attendance_mark_read_today("r1")
    \/ Idle /\ attendance_mark_insert("r1")
    \/ Idle /\ attendance_mark_return("r1")
    \/ Idle /\ \E student_id \in StudentIds : delete_student_answered(student_id)
    \/ Idle /\ admin_clear_students_all_answered
    \/ respond

SpecFiles == Init /\ [][NextFiles]_vars

(***************************************************************************)
(* Properties.                                                             *)
(***************************************************************************)
MinOf(S) == CHOOSE x \in S : \A y \in S : x <= y

\* the smallest distance of a candidate list, in whatever order it came
BestDistance(cands) == MinOf({cands[i].distance : i \in 1..Len(cands)})

\* the smallest distance among the other candidates, for a list of two or more
SecondDistance(cands) ==
    LET i == CHOOSE k \in 1..Len(cands) : cands[k].distance = BestDistance(cands)
    IN  MinOf({cands[j].distance : j \in (1..Len(cands)) \ {i}})

\* the call has taken its recognition decision
Decided(r) == reqs[r].decision.status # "none"

\* the call has returned 'marked'
Marked(r) == reqs[r].pc = "done" /\ reqs[r].resp.status = "marked"

\* C1: in every reachable state the ledger holds at most one attendance row
\* for each student and calendar date.
C1_OneRecordPerStudentAndDate ==
    \A a, b \in attendances :
        (a.student_id = b.student_id /\ a.date = b.date) => a = b

\* C1 witness: one call inserted the day's row, a concurrent call's insert for
\* the same student and date was turned down, and one row is in the ledger
C1_Witness ==
    \E r1, r2 \in Req :
        /\ Marked(r1) /\ reqs[r1].inserted
        /\ reqs[r2].pc = "done"
        /\ reqs[r2].resp = IntegrityError("uq_attendance_student_date")
        /\ Cardinality(attendances) = 1

\* C2: the call whose insert the (student, date) constraint rejects returns the
\* winner's record as 'marked'; it never ends in an error.
C2_RaceLoserReturnsMarked ==
    \A r \in Req :
        reqs[r].pc = "done" =>
            reqs[r].resp # IntegrityError("uq_attendance_student_date")

\* C3: of two calls for one person on one date that return the same record, the
\* one that inserted it reports wasNew = true and the other wasNew = false.
C3_SecondCallReportsNotNew ==
    \A r1, r2 \in Req :
        ( /\ Marked(r1) /\ Marked(r2)
          /\ reqs[r1].inserted /\ ~reqs[r2].inserted
          /\ reqs[r1].resp.student = reqs[r2].resp.student
          /\ reqs[r1].resp.attendance = reqs[r2].resp.attendance )
        => /\ "wasNew" \in DOMAIN reqs[r1].resp
           /\ "wasNew" \in DOMAIN reqs[r2].resp
           /\ reqs[r1].resp.wasNew = TRUE
           /\ reqs[r2].resp.wasNew = FALSE

\* C4: a stored record is Tarde exactly when the time of day of its timestamp
\* is after 07:30:00, and Puntual otherwise.
C4_LateStrictlyAfterCutoff ==
    \A a \in attendances :
        /\ a.status \in {"Tarde", "Puntual"}
        /\ a.status = "Tarde" <=> a.time.tod > 7 * 3600 + 30 * 60

\* C4 witness: a record stamped 07:30:00 and a record stamped 07:30:01
C4_Witness ==
    /\ \E a \in attendances : a.time.tod = 27000 /\ a.status = "Puntual"
    /\ \E a \in attendances : a.time.tod = 27001 /\ a.status = "Tarde"

\* C5: when the smallest distance of a non-empty candidate list is above the
\* effective threshold the call answers unknown/above_threshold with that
\* distance, whatever the margin, and inserts nothing.
C5_AboveThresholdIsUnknown ==
    \A r \in Req :
        ( /\ Decided(r)
          /\ reqs[r].cands # << >>
          /\ BestDistance(reqs[r].cands) > reqs[r].eff_max_distance )
        => /\ reqs[r].pc = "done"
           /\ reqs[r].resp = [status |-> "unknown", reason |-> "above_threshold",
                              distance |-> BestDistance(reqs[r].cands)]
           /\ ~reqs[r].inserted

\* C5 witness: best above the threshold and second best closer than the margin
C5_Witness ==
    \E r \in Req :
        /\ Decided(r)
        /\ Len(reqs[r].cands) >= 2
        /\ BestDistance(reqs[r].cands) > reqs[r].eff_max_distance
        /\ SecondDistance(reqs[r].cands) - BestDistance(reqs[r].cands)
              < reqs[r].min_margin

\* C6 as stated: whenever two or more candidates leave a margin below minMargin
\* the answer is unknown/low_margin with distance = best and margin.
C6_LowMarginAlways ==
    \A r \in Req :
        ( /\ Decided(r)
          /\ Len(reqs[r].cands) >= 2
          /\ SecondDistance(reqs[r].cands) - BestDistance(reqs[r].cands)
                < reqs[r].min_margin )
        => reqs[r].resp =
               [status |-> "unknown", reason |-> "low_margin",
                distance |-> BestDistance(reqs[r].cands),
                margin |-> SecondDistance(reqs[r].cands)
                               - BestDistance(reqs[r].cands)]

\* C6 amended: whenever two or more candidates leave a margin below minMargin
\* and the best distance is within the threshold, the answer is
\* unknown/low_margin with distance = best and margin = second - best.
C6_LowMarginWithinThreshold ==
    \A r \in Req :
        ( /\ Decided(r)
          /\ Len(reqs[r].cands) >= 2
          /\ BestDistance(reqs[r].cands) <= reqs[r].eff_max_distance
          /\ SecondDistance(reqs[r].cands) - BestDistance(reqs[r].cands)
                < reqs[r].min_margin )
        => /\ reqs[r].pc = "done"
           /\ reqs[r].resp =
                  [status |-> "unknown", reason |-> "low_margin",
                   distance |-> BestDistance(reqs[r].cands),
                   margin |-> SecondDistance(reqs[r].cands)
                                  - BestDistance(reqs[r].cands)]

\* C6 witness: best within the threshold, second best closer than the margin
C6_Witness ==
    \E r \in Req :
        /\ Decided(r)
        /\ Len(reqs[r].cands) >= 2
        /\ BestDistance(reqs[r].cands) <= reqs[r].eff_max_distance
        /\ SecondDistance(reqs[r].cands) - BestDistance(reqs[r].cands)
              < reqs[r].min_margin
        /\ reqs[r].resp.status = "unknown"

\* C7: an empty candidate list is answered with a bare unknown; the call is
\* over at once, having looked up no student and inserted nothing.
C7_NoCandidatesIsUnknown ==
    \A r \in Req :
        (Decided(r) /\ reqs[r].cands = << >>)
        => /\ reqs[r].pc = "done"
           /\ reqs[r].resp = [status |-> "unknown"]
           /\ reqs[r].student = None
           /\ ~reqs[r].inserted

\* C7 witness: a call answered for an empty candidate list
C7_Witness ==
    \E r \in Req : reqs[r].pc = "done" /\ Decided(r) /\ reqs[r].cands = << >>

\* C8: the decision is accepted, with the best candidate's code and distance,
\* exactly when the list is non-empty, best <= threshold and there is no second
\* candidate or second - best >= minMargin.
C8_AcceptedExactlyWhen ==
    \A r \in Req :
        Decided(r) =>
            LET cands == reqs[r].cands
                accepted == reqs[r].decision.status = "accepted"
                passes ==
                    /\ cands # << >>
                    /\ BestDistance(cands) <= reqs[r].eff_max_distance
                    /\ \/ Len(cands) = 1
                       \/ SecondDistance(cands) - BestDistance(cands)
                              >= reqs[r].min_margin
            IN  /\ accepted <=> passes
                /\ accepted =>
                    /\ reqs[r].decision.distance = BestDistance(cands)
                    /\ \E i \in 1..Len(cands) :
                        /\ cands[i].distance = BestDistance(cands)
                        /\ cands[i].identity = IdentityPath(reqs[r].decision.code)

\* C8 witness: accepted with best equal to the threshold and a tie at minMargin 0
C8_Witness ==
    \E r \in Req :
        /\ reqs[r].decision.status = "accepted"
        /\ Len(reqs[r].cands) >= 2
        /\ BestDistance(reqs[r].cands) = reqs[r].eff_max_distance
        /\ SecondDistance(reqs[r].cands) = BestDistance(reqs[r].cands)
        /\ reqs[r].min_margin = 0

\* outcome, reason, distance and margin of a decision
Outcome(dec) == [f \in (DOMAIN dec) \ {"code"} |-> dec[f]]

\* C9: outcome, reason, distance and margin of the decision are the same for
\* every order in which the matching engine could have returned the candidates.
C9_DecisionIgnoresOrder ==
    \A r \in Req :
        Decided(r) =>
            \A p \in Orderings(Len(reqs[r].cands)) :
                \A dec \in decisions([i \in 1..Len(reqs[r].cands) |->
                                         reqs[r].cands[p[i]]],
                                     reqs[r].eff_max_distance, reqs[r].min_margin) :
                    Outcome(dec) = Outcome(reqs[r].decision)

\* C9 witness: a decision on a list the engine returned out of order
C9_Witness ==
    \E r \in Req :
        /\ Decided(r)
        /\ Len(reqs[r].cands) >= 2
        /\ reqs[r].cands[1].distance > reqs[r].cands[2].distance

\* C10: from one state to the next, a record that is still in the ledger for a
\* student and date has the date, time and status it had.
C10_RecordNeverUpdated ==
    [][\A a \in attendances : \A b \in attendances' :
          (a.student_id = b.student_id /\ a.date = b.date)
          => (b.date = a.date /\ b.time = a.time /\ b.status = a.status)]_vars

\* C10 witness: a call at a later instant returned the day's record that an
\* earlier call had inserted, and the record is in the ledger as inserted
C10_Witness ==
    \E r \in Req :
        /\ Marked(r) /\ ~reqs[r].inserted
        /\ reqs[r].resp.attendance.time # isoformat(clock)
        /\ \E a \in attendances :
            /\ isoformat(a.time) = reqs[r].resp.attendance.time
            /\ a.date = clock.day

\* the students a summary's grade and section filters select
GroupOf(request) ==
    {s \in students :
        /\ (request.grade \notin {None, Some("")} => s.grade = request.grade)
        /\ (request.section \notin {None, Some("")} => s.section = request.section)}

\* the students of a group with at least one record dated in first..last
PresentIn(group, first, last) ==
    {s \in group :
        \E a \in attendances : a.student_id = s.id /\ a.date \in first..last}

\* a summary over a range that has both of its bounds has been answered
SummaryOverRange ==
    /\ out.op = "metrics_summary"
    /\ out.status = 200
    /\ out.start # None
    /\ out.end # None

\* C11: a summary over [start, end] with grade and section filters counts as
\* absent the registered students matching the filters minus those of them
\* with at least one record dated in the range; the percentage is that count
\* over the matching students, so 5 students of whom 2 have records give 60.0.
C11_AbsentIsGroupMinusPresent ==
    SummaryOverRange =>
        LET group == GroupOf(out.request)
            present == PresentIn(group, out.start[1], out.end[1])
            absent == Cardinality(group) - Cardinality(present)
        IN  /\ out.body.students_total = Cardinality(group)
            /\ out.absent_students = absent
            /\ group # {} =>
                 LET d == out.body.absent_pct * Cardinality(group) - absent * 10000
                 IN  2 * d <= Cardinality(group) /\ -2 * d <= Cardinality(group)
            /\ (Cardinality(group) = 5 /\ Cardinality(present) = 2) =>
                 out.body.absent_pct = 6000

\* C11 witness: a summary with explicit bounds over five matching students, two
\* of them with records in the range and one more with a record outside it
C11_Witness ==
    /\ SummaryOverRange
    /\ out.request.start # None /\ out.request.end # None
    /\ Cardinality(GroupOf(out.request)) = 5
    /\ Cardinality(PresentIn(GroupOf(out.request), out.start[1], out.end[1])) = 2
    /\ Cardinality(PresentIn(GroupOf(out.request), 0, out.end[1])) = 3
    /\ out.body.absent_pct = 6000

\* C12: a summary is always answered, never failing on a division by zero:
\* with no record counted the punctual and late percentages are 0.0, with no
\* student counted the absent percentage is 0.0.
C12_NoDivisionByZero ==
    out.op = "metrics_summary" =>
        /\ out.status = 200
        /\ out.body.records_total = 0 =>
             (out.body.punctuality_pct = 0 /\ out.body.late_pct = 0)
        /\ out.body.students_total = 0 => out.body.absent_pct = 0

\* C12 witness: a summary answered over an empty registry whose ledger still
\* holds records, none of them counted
C12_Witness ==
    /\ out.op = "metrics_summary"
    /\ out.status = 200
    /\ students = {}
    /\ attendances # {}
    /\ out.body.records_total = 0
    /\ out.body.students_total = 0
    /\ out.body.punctuality_pct = 0
    /\ out.body.absent_pct = 0

\* every record of the ledger refers to a student of the registry
NoOrphanRecord == \A a \in attendances : \E s \in students : s.id = a.student_id

\* today's figures agree with the summary over [today, today] without filters
TodayAgreesWithSummary ==
    LET s == metrics_summary_resp(None, None, None, Some(clock.day), Some(clock.day))
    IN  /\ out.body.total_today = s.body.records_total
        /\ out.body.punctual_today + out.body.late_today = out.body.total_today
        /\ out.body.absent_today = s.body.students_total - out.body.total_today
        /\ out.body.absent_today >= 0

\* C13: whenever today's figures are answered, totalToday is the summary's
\* recordsTotal over [today, today] without filters, punctual plus late is
\* totalToday, and absentToday is studentsTotal minus totalToday, not negative.
C13_TodayAgreesWithSummary == out.op = "metrics_today" => TodayAgreesWithSummary

\* the same figures while every record refers to a registered student
C13_AgreesWithoutOrphans ==
    (out.op = "metrics_today" /\ NoOrphanRecord) => TodayAgreesWithSummary

\* the half-open interval of times of day a bucket stands for
BucketInterval(b) ==
    CASE b = "7:30-7:45" -> (7 * 3600 + 30 * 60)..(7 * 3600 + 45 * 60 - 1)
      [] b = "7:45-8:00" -> (7 * 3600 + 45 * 60)..(8 * 3600 - 1)
      [] b = "8:00-8:15" -> (8 * 3600)..(8 * 3600 + 15 * 60 - 1)
      [] b = "8:15-8:30" -> (8 * 3600 + 15 * 60)..(8 * 3600 + 30 * 60 - 1)
      [] b = "8:30+" -> (8 * 3600 + 30 * 60)..(24 * 3600 - 1)

\* the records a detailed request selects
DetailedRows(request) ==
    {a \in attendances :
        /\ \E s \in GroupOf(request) : s.id = a.student_id
        /\ (request.start # None => a.date >= request.start[1])
        /\ (request.end # None => a.date <= request.end[1])}

\* C14: in a detailed answer every record counted in an arrival bucket has its
\* time of day inside the bucket's half-open interval, so no bucket counts more
\* records than the selected records inside its interval; a record from before
\* 07:30 is not counted in the 7:45-8:00 bucket.
C14_BucketCountsWithinInterval ==
    out.op = "metrics_detailed" =>
        \A b \in Buckets :
            out.body.arrival_buckets[b] <=
                Cardinality({a \in DetailedRows(out.request) :
                                a.time.tod \in BucketInterval(b)})

\* first..last is the day, the Monday-to-Sunday week or the month that holds
\* today; day 0 (Epoch) is a Monday
IsPeriodOf(period, first, last, today) ==
    /\ first <= today /\ today <= last
    /\ period = "day" => first = last
    /\ period = "week" => (first % 7 = 0 /\ last = first + 6)
    /\ period = "month" =>
         /\ DateOf(last).y = DateOf(today).y
         /\ DateOf(last).m = DateOf(today).m
         /\ DateOf(last + 1).d = 1
         /\ first = last - DaysInMonth(DateOf(today).y, DateOf(today).m) + 1

\* the records of the request's group dated within the optional bounds
RecordsWithin(request, start, end) ==
    {a \in attendances :
        /\ \E s \in GroupOf(request) : s.id = a.student_id
        /\ (start # None => a.date >= start[1])
        /\ (end # None => a.date <= end[1])}

\* C15: a summary resolves its range from the named period only when the
\* request carries neither start nor end: 'day' is today, 'week' the Monday to
\* Sunday that holds today, 'month' the first to the last day of today's month,
\* December included; when start or end is supplied the period is ignored and
\* only the supplied bounds filter the records.
C15_PeriodOnlyWithoutBounds ==
    (out.op = "metrics_summary" /\ out.status = 200) =>
        LET rq == out.request
        IN  /\ IF rq.period # None /\ rq.start = None /\ rq.end = None
               THEN /\ out.start # None /\ out.end # None
                    /\ IsPeriodOf(rq.period[1], out.start[1], out.end[1], clock.day)
               ELSE out.start = rq.start /\ out.end = rq.end
            /\ out.body.records_total =
                 Cardinality(RecordsWithin(rq, out.start, out.end))

\* C15 witness: on 31 December the month is asked for without bounds and the
\* summary counts records over 1..31 December
C15_Witness ==
    /\ out.op = "metrics_summary"
    /\ out.request.period = Some("month")
    /\ out.request.start = None /\ out.request.end = None
    /\ DateOf(clock.day) = [y |-> 2024, m |-> 12, d |-> 31]
    /\ out.start = Some(clock.day - 30)
    /\ out.end = Some(clock.day)
    /\ out.body.records_total >= 2

\* the ledger's records of a student
RecordsOf(student_id) == {a \in attendances : a.student_id = student_id}

\* C16: a history answered for a student and a limit holds only records of that
\* student, each once, in non-increasing order of timestamp, min(limit, number
\* of the student's records) of them, none older than a record left out; each
\* entry shows its record's date, time and status.
C16_HistoryMostRecentFirst ==
    (out.op = "student_attendance_history" /\ out.status = 200) =>
        LET mine == RecordsOf(out.student_id)
            rows == out.rows
            n == Len(rows)
        IN  /\ \A i \in 1..n : rows[i] \in mine
            /\ \A i, j \in 1..n : rows[i] = rows[j] => i = j
            /\ \A i, j \in 1..n : i < j => ~Before(rows[i].time, rows[j].time)
            /\ n = IF out.limit < Cardinality(mine) THEN out.limit ELSE Cardinality(mine)
            /\ \A a \in mine \ {rows[i] : i \in 1..n} :
                 \A i \in 1..n : ~Before(rows[i].time, a.time)
            /\ Len(out.body) = n
            /\ \A i \in 1..n :
                 /\ out.body[i].date = str_date(rows[i].date)
                 /\ out.body[i].time =
                      <<rows[i].time.tod \div 3600, (rows[i].time.tod \div 60) % 60,
                        rows[i].time.tod % 60>>
                 /\ out.body[i].status = rows[i].status

\* C16 witness: a student holds an earlier and a later record and a history of
\* limit 1 returns the later one alone
C16_Witness ==
    /\ out.op = "student_attendance_history"
    /\ out.status = 200
    /\ out.limit = 1
    /\ Len(out.rows) = 1
    /\ \E a \in RecordsOf(out.student_id) : Before(a.time, out.rows[1].time)

\* C17: a student is enrolled, one attendance_mark call recognises the student,
\* and the history with limit 1 is answered: it holds exactly one entry, the
\* record that call inserted, with the date and the status the call answered.
C17_RoundTripReturnsNewRecord ==
    out.op = "student_attendance_history" =>
        /\ out.status = 200
        /\ Len(out.body) = 1
        /\ reqs["r1"].resp.status = "marked"
        /\ reqs["r1"].inserted
        /\ out.body[1].date = reqs["r1"].resp.attendance.date
        /\ out.body[1].status = reqs["r1"].resp.attendance.status

\* a step in which a read-side call is answered
ReadAnswered == out = NoOut /\ out' # NoOut

\* C18: every read-side call (today, summary, weekly, by-grade and detailed
\* metrics, the attendance listings and counts, the student listings, the
\* history and the report with the absences it makes up) leaves the students and
\* the attendances tables as they were, and no stored record has status Ausente.
C18_ReadsChangeNothing ==
    /\ [](\A a \in attendances : a.status # "Ausente")
    /\ [][ReadAnswered => (students' = students /\ attendances' = attendances)]_vars

\* C18 witness: a report has been answered with a made-up absence next to a
\* stored record, and the ledger holds that record alone
C18_Witness ==
    /\ out.op = "export_attendance_pdf"
    /\ \E i, j \in 1..Len(out.attendances) :
         /\ out.attendances[i].status = "Ausente"
         /\ out.attendances[j].status # "Ausente"
    /\ Cardinality(attendances) = 1
    /\ Cardinality(students) = 2

\* the report entry was made up for a student without a record
IsAbsentAttendance(att) == "confidence" \in DOMAIN att

\* C19: in a report, the time of a row is the placeholder "--:--" exactly when
\* the row is a made-up absence, and the HH:MM of the record's time when the
\* row is a stored record.
C19_PlaceholderIffAbsence ==
    out.op = "export_attendance_pdf" =>
        \A i \in 1..Len(out.data) :
            IF IsAbsentAttendance(out.attendances[i])
            THEN out.data[i].time = <<"-", "-", ":", "-", "-">>
            ELSE /\ out.data[i].time # <<"-", "-", ":", "-", "-">>
                 /\ out.data[i].time = strftime_HM(out.attendances[i].time)

\* the rows of stored records show the record's HH:MM
C19_StoredRowsShowTime ==
    out.op = "export_attendance_pdf" =>
        \A i \in 1..Len(out.data) :
            ~IsAbsentAttendance(out.attendances[i]) =>
                out.data[i].time = strftime_HM(out.attendances[i].time)

\* C20: a summary or detailed request that carries a start and an end with the
\* end before the start is answered with an input error (HTTP 400 or 422), not
\* with statistics.
C20_EndBeforeStartRejected ==
    (/\ out.op \in {"metrics_summary", "metrics_detailed"}
     /\ out.request.start # None
     /\ out.request.end # None
     /\ out.request.end[1] < out.request.start[1])
        => out.status \in {400, 422}

\* a call of create_student or create_student_form is at its insert and its
\* code is in the registry
EnrollingTakenCode(r) ==
    /\ reqs[r].pc = "create_commit"
    /\ \E s \in students : s.code = reqs[r].st.code

\* C21: no two students share a code, whatever enrollments run concurrently;
\* an enrollment whose lookup finds its code taken answers 400 and goes no
\* further, one that reaches its insert when the code is taken ends in an
\* error, and both leave the table students as it was.
C21_TakenCodeIsAnError ==
    /\ [](\A s, t \in students : s.code = t.code => s = t)
    /\ [][\A r \in Req :
            /\ (EnrollingTakenCode(r) /\ reqs'[r] # reqs[r]) =>
                 (/\ reqs'[r].pc = "done"
                  /\ reqs'[r].resp.status = "error"
                  /\ students' = students)
            /\ (reqs[r].pc = "idle" /\ reqs'[r].pc = "create_commit") =>
                 (/\ \A s \in students : s.code # reqs'[r].st.code
                  /\ students' = students)
            /\ (reqs[r].pc = "idle" /\ reqs'[r].pc = "done"
                    /\ reqs'[r].resp = CodeTaken) =>
                 (students # {} /\ students' = students)]_vars

\* C21 witness: two enrollments of one code ran concurrently; one inserted the
\* student, the insert of the other was rejected
C21_Witness ==
    /\ reqs["r1"].pc = "done" /\ reqs["r2"].pc = "done"
    /\ reqs["r1"].inserted
    /\ reqs["r1"].resp.code = 200
    /\ reqs["r2"].resp = IntegrityError("students.code")
    /\ Cardinality(students) = 1
    /\ \E s \in students : s.code = reqs["r1"].resp.student.code

\* C22: a delete_student call for an existing student answers 200 with
\* {"deleted": true, "files_cleaned": true} and the student is gone from the
\* registry, whichever removals of the student's files raised; an
\* admin_clear_students_all call answers 200 and leaves the registry empty,
\* whichever removals raised; a removal that raised is only in the log and
\* its file is still there
C22_FailedCleanupOnlyLogged ==
    /\ (out.op = "delete_student" /\ out.status # 404) =>
          /\ out.status = 200
          /\ out.body = [deleted |-> TRUE, files_cleaned |-> TRUE]
          /\ \A st \in students : st.id # out.student_id
          /\ out.errors \subseteq fs
    /\ out.op = "admin_clear_students_all" =>
          /\ out.status = 200
          /\ students = {}
          /\ out.errors \subseteq fs

\* a removal failed during a delete_student call, which answered 200
C22_Witness ==
    /\ out.op = "delete_student"
    /\ out.status = 200
    /\ out.errors # {}

\* a removal failed during an admin_clear_students_all call that deleted two
\* students
C22_BulkWitness ==
    /\ out.op = "admin_clear_students_all"
    /\ out.errors # {}
    /\ out.body.deleted = 2

\* C23: for every attendance_mark call that has taken its decision, the
\* effective threshold is the request's max_distance when one was sent, else
\* the configured FACE_MAX_DISTANCE when it is set, else the default of the
\* call's model; the defaults are euclidean_l2 and 1.20 for a model name
\* containing 'arc' in any case, cosine and 0.30 for a name containing
\* 'facenet', cosine and 0.30 for any other name
C23_EffectiveThreshold ==
    \A r \in Req :
        reqs[r].pc \in {"add_student", "today", "insert", "done"} =>
            LET m == reqs[r].model_name
                default == defaults_for_model(m)
            IN  /\ m \in {ArcFace, ARCFACE} =>
                      default = [metric |-> "euclidean_l2", threshold |-> 120]
                /\ m \in {Facenet512, VGGFace} =>
                      default = [metric |-> "cosine", threshold |-> 30]
                /\ reqs[r].max_distance # None =>
                      reqs[r].eff_max_distance = reqs[r].max_distance[1]
                /\ (reqs[r].max_distance = None /\ FACE_MAX_DISTANCE # None) =>
                      reqs[r].eff_max_distance = FACE_MAX_DISTANCE[1]
                /\ (reqs[r].max_distance = None /\ FACE_MAX_DISTANCE = None) =>
                      reqs[r].eff_max_distance = default.threshold

\* a call naming the model in capitals, with no override of either kind,
\* decided against 1.20
C23_Witness ==
    /\ reqs["r1"].pc = "done"
    /\ reqs["r1"].model_name = ARCFACE
    /\ reqs["r1"].max_distance = None
    /\ FACE_MAX_DISTANCE = None
    /\ reqs["r1"].eff_max_distance = 120

\* a call with both overrides, decided against the request's
C23_BothOverrides ==
    /\ reqs["r1"].pc = "done"
    /\ reqs["r1"].max_distance = Some(30)
    /\ FACE_MAX_DISTANCE = Some(28)
    /\ reqs["r1"].eff_max_distance = 30

\* C24: in every reachable state each attendance row's student_id is the id
\* of a row of the table students, so that a student deleted singly or in
\* bulk leaves no attendance row behind
C24_RecordsReferToStudents ==
    \A a \in attendances : a.student_id \in {st.id : st \in students}

\* the students of a group with at least one record inside the bounds that
\* are given, each bound None or a date
PresentWithin(group, start, end) ==
    {s \in group :
        \E a \in attendances :
            /\ a.student_id = s.id
            /\ start # None => a.date >= start[1]
            /\ end # None => a.date <= end[1]}

\* C25: whichever of start and end a summary works with (both, one or
\* none), the students it counts as absent are those of the filtered group
\* with no record satisfying the bounds given, the bounds that records_total
\* is counted with
C25_AbsentUsesTheBoundsGiven ==
    (out.op = "metrics_summary" /\ out.status = 200) =>
        LET group == GroupOf(out.request)
        IN  /\ out.body.records_total =
                 Cardinality({a \in attendances :
                     /\ \E s \in group : s.id = a.student_id
                     /\ out.start # None => a.date >= out.start[1]
                     /\ out.end # None => a.date <= out.end[1]})
            /\ out.absent_students =
                 Cardinality(group)
                   - Cardinality(PresentWithin(group, out.start, out.end))

\* the attendance_mark call of slot r takes its decision in this step, and
\* the decision is not an acceptance
DecidesUnknown(r) ==
    /\ reqs[r].pc = "idle"
    /\ reqs'[r].pc # "idle"
    /\ "decision" \in DOMAIN reqs'[r]
    /\ reqs'[r].decision.status # "accepted"

\* C26: an attendance_mark call whose decision is not an acceptance (no
\* candidates, best distance above the threshold, margin too small) ends
\* with that decision as its answer, having stored nothing, and leaves the
\* tables students and attendances as they were
C26_UnknownChangesNothing ==
    [][\A r \in Req :
          DecidesUnknown(r) =>
              /\ reqs'[r].pc = "done"
              /\ reqs'[r].resp = reqs'[r].decision
              /\ reqs'[r].resp.status = "unknown"
              /\ ~reqs'[r].inserted
              /\ students' = students
              /\ attendances' = attendances]_vars

\* a call answered "unknown" for a margin too small, with a student and an
\* attendance row in the tables
C26_Witness ==
    /\ reqs["r1"].pc = "done"
    /\ reqs["r1"].resp.status = "unknown"
    /\ "reason" \in DOMAIN reqs["r1"].resp
    /\ reqs["r1"].resp.reason = "low_margin"
    /\ students # {}
    /\ attendances # {}

\* the rows of the report answered that are about student s
RowsOf(s) == {i \in 1..Len(out.data) : out.data[i].code = s.code}

\* the students the report's grade and section filters select
ReportPopulation == report_group(out.request.grade, out.request.section)

\* student s has a stored record dated on the report's date
HasRecordOn(s) ==
    \E a \in attendances : a.student_id = s.id /\ a.date = out.request.date

\* a report has been answered
ReportAnswered == out.op = "export_attendance_pdf" /\ out.status = 200

\* a report without a status filter has one row for each student of its
\* population: a present row for a student with a record on its date, an
\* absence otherwise; a report of the absent has one row for each student
\* of its population without a record on its date
ReportRowsAreRight ==
    /\ ~Truthy(out.request.status) =>
          /\ Len(out.data) = Cardinality(ReportPopulation)
          /\ \A s \in ReportPopulation :
                /\ Cardinality(RowsOf(s)) = 1
                /\ \A i \in RowsOf(s) :
                      IF HasRecordOn(s)
                      THEN out.data[i].status \in {"Puntual", "Tarde"}
                      ELSE out.data[i].status = "Ausente"
    /\ out.request.status = Some("Ausente") =>
          /\ \A i \in 1..Len(out.data) : out.data[i].status = "Ausente"
          /\ Len(out.data) =
                Cardinality({s \in ReportPopulation : ~HasRecordOn(s)})
          /\ \A s \in ReportPopulation :
                Cardinality(RowsOf(s)) = IF HasRecordOn(s) THEN 0 ELSE 1

\* C27: whenever a report is answered, a report without a status filter
\* shows every student of the filtered population in exactly one row
\* (Puntual or Tarde when the student has a record on the date, a made-up
\* Ausente row otherwise), and a report filtered by Ausente shows exactly
\* the students of the filtered population without a record on the date
C27_ReportRowsPerStudent == ReportAnswered => ReportRowsAreRight

\* the same while every stored record's time falls on the record's date
C27_RowsRightWithoutSkew ==
    (ReportAnswered /\ \A a \in attendances : a.time.day = a.date)
        => ReportRowsAreRight

\* C28: every stored attendance row's date is the date of its time, and its
\* status is Tarde exactly when its time is after 07:30:00 of that date,
\* however the clock moved during the call that stored it
C28_DateIsDateOfTime ==
    \A a \in attendances :
        /\ a.date = a.time.day
        /\ a.status = IF a.time.tod > 7 * 3600 + 30 * 60 THEN "Tarde" ELSE "Puntual"

\* every stored row's status is the classification of its time against the
\* cutoff of the day of that time
C28_StatusFollowsTime ==
    \A a \in attendances :
        a.status = IF a.time.tod > 7 * 3600 + 30 * 60 THEN "Tarde" ELSE "Puntual"

\* C29: a record is attributed to the student whose id it carries.  In every
\* step, a record stored by the step is attributed to the person its
\* attendance_mark call resolved to, and a record that was there before the
\* step is attributed after it, if to anyone, to the person it was
\* attributed to before: no student enrolled later takes over the records of
\* a deleted one.  A person is known by the code.
C29_RecordsStayWithTheirPerson ==
    [][\A a \in attendances' : \A st \in students' :
          st.id = a.student_id =>
              IF a \in attendances
              THEN \E s \in students : s.id = a.student_id /\ s.code = st.code
              ELSE \E r \in Req : /\ reqs[r].pc = "insert"
                                  /\ reqs[r].decision.code = st.code]_vars

\* both attendance_mark calls have ended, having accepted the same code
BothAcceptedSameCode ==
    /\ \A r \in Req : reqs[r].pc = "done" /\ reqs[r].decision.status = "accepted"
    /\ reqs["r1"].decision.code = reqs["r2"].decision.code

\* C30: when two attendance_mark calls that accepted the same code have both
\* ended, both were answered 'marked' and there is exactly one student with
\* that code
C30_ConcurrentMarksBothMarked ==
    BothAcceptedSameCode =>
        /\ \A r \in Req : reqs[r].resp.status = "marked"
        /\ Cardinality({s \in students : s.code = reqs["r1"].decision.code}) = 1

\* the race itself: of two calls that accepted the same unseen code, one
\* created the student, named by the code, and was answered 'marked'; the
\* other's insert was rejected by the unique constraint on the code
C30_SecondCallFails ==
    /\ BothAcceptedSameCode
    /\ reqs["r1"].resp.status = "marked"
    /\ reqs["r2"].resp = IntegrityError("students.code")
    /\ \A s \in students : s.name = s.code
    /\ Cardinality(students) = 1

====
